---- MODULE Spec2Model ----
(***************************************************************************)
(* Model of openwx's selective GRIB retrieval (src/src/openwx/grib.py and  *)
(* the parameter registry of src/src/openwx/gfs.py).                       *)
(*                                                                         *)
(* Python str values that meet catalog data (index text, lines, fields,    *)
(* parameter names, levels) and bytes values are sequences of one-char     *)
(* strings, so that split/rstrip/int/slicing are computed as Python        *)
(* computes them.  URLs and header values, which are only ever built and   *)
(* compared whole, are TLA+ strings.  Optional[int] is None == <<>> or     *)
(* Some(n) == <<n>>.  A dict is a function on its key set.                 *)
(***************************************************************************)
EXTENDS Integers, Sequences, FiniteSets, TLC

VARIABLES
    pc,             \* position of the invocation
    run,            \* argument run: [year, month, day, hour]
    forecast,       \* argument forecast
    parameter,      \* argument parameter
    level,          \* argument level
    src_lines,      \* the records the remote catalog text was written from
    index,          \* catalog text (resp_text of get_grib_index)
    catalog_status, \* HTTP status of the catalog response, 0 before it
    parsed,         \* outcome of parse_grib_index: [exc, value]
    span,           \* return value of get_start_stop_byte_nums
    log,            \* logging.warning calls, oldest first
    requests,       \* session.get calls, oldest first: [url, range]
    file_status,    \* HTTP status of the file response, 0 before it
    file_body,      \* body read from the file response
    grib_message,   \* return value of get_grib_message
    decoded,        \* bodies handed to the record decoder
    value,          \* return value of get_parameter_value
    exc,            \* exception that ended the invocation, "none" if none
    url,            \* get_grib_url(run, forecast)
    idx_url,        \* get_grib_idx_url(run, forecast)
    api_request     \* the /queryGribParameters item served, None for a direct call

vars == <<pc, run, forecast, parameter, level, src_lines, index,
          catalog_status, parsed, span, log, requests, file_status,
          file_body, grib_message, decoded, value, exc, url, idx_url,
          api_request>>

(***************************************************************************)
(* Bounds of the model.                                                    *)
(***************************************************************************)
MaxLines == 3
MaxFetchLines == 2

(***************************************************************************)
(* Python values.                                                          *)
(***************************************************************************)
None == <<>>
Some(n) == <<n>>

NL == "\n"
COLON == ":"

EmptyDict == <<>>

Reverse(s) == [i \in 1..Len(s) |-> s[Len(s) + 1 - i]]

SeqsUpTo(S, n) == UNION {[1..k -> S] : k \in 0..n}

\* str.split(sep) with a one-character separator: the pieces between
\* consecutive occurrences of sep, empty pieces included
SepPositions(s, sep) == {i \in 1..Len(s) : s[i] = sep}

\* position of the k-th separator; 0 for k = 0, Len(s) + 1 past the last
SepAt(s, sep, k) ==
    IF k = 0 THEN 0
    ELSE IF k > Cardinality(SepPositions(s, sep)) THEN Len(s) + 1
    ELSE CHOOSE i \in SepPositions(s, sep) :
            Cardinality({j \in SepPositions(s, sep) : j < i}) = k - 1

Split(s, sep) ==
    [k \in 1..(Cardinality(SepPositions(s, sep)) + 1) |->
        SubSeq(s, SepAt(s, sep, k - 1) + 1, SepAt(s, sep, k) - 1)]

\* str.rstrip(chars) with a one-character set
RECURSIVE RStrip(_, _)
RStrip(s, c) ==
    IF Len(s) > 0 /\ s[Len(s)] = c THEN RStrip(SubSeq(s, 1, Len(s) - 1), c)
    ELSE s

RECURSIVE LStrip(_, _)
LStrip(s, c) ==
    IF Len(s) > 0 /\ s[1] = c THEN LStrip(Tail(s), c)
    ELSE s

DigitChars == <<"0", "1", "2", "3", "4", "5", "6", "7", "8", "9">>

IsDigit(c) == \E d \in 1..10 : DigitChars[d] = c

DigitVal(c) == (CHOOSE d \in 1..10 : DigitChars[d] = c) - 1

\* the digits of an int() argument: surrounding blanks and one sign removed
IntBody(t) ==
    LET u == RStrip(LStrip(t, " "), " ")
    IN  IF Len(u) > 0 /\ u[1] \in {"+", "-"} THEN Tail(u) ELSE u

IntSign(t) ==
    LET u == LStrip(t, " ")
    IN  IF Len(u) > 0 /\ u[1] = "-" THEN -1 ELSE 1

\* int(t) raises ValueError unless IntValid(t)
IntValid(t) ==
    /\ Len(IntBody(t)) > 0
    /\ \A i \in 1..Len(IntBody(t)) : IsDigit(IntBody(t)[i])

RECURSIVE DigitsValue(_, _, _)
DigitsValue(ds, i, acc) ==
    IF i > Len(ds) THEN acc
    ELSE DigitsValue(ds, i + 1, acc * 10 + DigitVal(ds[i]))

PyInt(t) == IntSign(t) * DigitsValue(IntBody(t), 1, 0)

\* a setdefault slip: an entry already in the table is kept
DictSet2_keep_first(d, k1, k2, v) ==
    [k \in (DOMAIN d) \cup {k1} |->
        IF k = k1
        THEN IF k1 \in DOMAIN d
             THEN [l \in (DOMAIN d[k1]) \cup {k2} |->
                      IF l \in DOMAIN d[k1] THEN d[k1][l] ELSE v]
             ELSE [l \in {k2} |-> v]
        ELSE d[k]]

\* d[k1][k2] = v as lines 100-103 do it
DictSet2(d, k1, k2, v) ==
    [k \in (DOMAIN d) \cup {k1} |->
        IF k = k1
        THEN IF k1 \in DOMAIN d
             THEN [l \in (DOMAIN d[k1]) \cup {k2} |->
                      IF l = k2 THEN v ELSE d[k1][l]]
             ELSE [l \in {k2} |-> v]
        ELSE d[k]]

Raised(e) == [exc |-> e, value |-> <<>>]
Returned(v) == [exc |-> "none", value |-> v]

\* an off-by-one slip: the stop is the next record's first byte
stop_before_inclusive(prev_start) ==
    IF prev_start # None THEN Some(prev_start[1]) ELSE None

\* a truthiness slip: `if prev_start` takes offset 0 for no offset
stop_before_truthy(prev_start) ==
    IF prev_start # None /\ prev_start[1] # 0 THEN Some(prev_start[1] - 1)
    ELSE None

\* stop = prev_start - 1 if prev_start is not None else None
stop_before(prev_start) ==
    IF prev_start # None THEN Some(prev_start[1] - 1) ELSE None

\* the loop of parse_grib_index over the lines in scan order
RECURSIVE parse_loop(_, _, _, _)
parse_loop(lines, i, result, prev_start) ==
    IF i > Len(lines) THEN Returned(result)
    ELSE IF Len(lines[i]) = 0 THEN parse_loop(lines, i + 1, result, prev_start)
    ELSE LET fields == Split(RStrip(lines[i], COLON), COLON)
         IN  IF Len(fields) # 6 THEN Raised("ValueError")
             ELSE LET start == fields[2]
                      stop == stop_before(prev_start)
                  IN  IF ~IntValid(start) THEN Raised("ValueError")
                      ELSE parse_loop(lines, i + 1,
                               DictSet2(result, fields[4], fields[5],
                                   [start |-> PyInt(start), stop |-> stop]),
                               Some(PyInt(start)))

\* a scan that forgets to reverse the lines
parse_grib_index_forward(text) == parse_loop(Split(text, NL), 1, EmptyDict, None)

parse_grib_index(text) == parse_loop(Reverse(Split(text, NL)), 1, EmptyDict, None)

(***************************************************************************)
(* Text literals.                                                          *)
(***************************************************************************)
TEMPERATURE_2M == <<"t", "e", "m", "p", "e", "r", "a", "t", "u", "r", "e", "_", "2", "m">>
RELATIVE_HUMIDITY_2M == <<"r", "e", "l", "a", "t", "i", "v", "e", "_", "h", "u", "m", "i", "d", "i", "t", "y", "_", "2", "m">>
GUST_SURFACE == <<"g", "u", "s", "t", "_", "s", "u", "r", "f", "a", "c", "e">>
TMP == <<"T", "M", "P">>
RH == <<"R", "H">>
GUST == <<"G", "U", "S", "T">>
PRMSL == <<"P", "R", "M", "S", "L">>
ICMR == <<"I", "C", "M", "R">>
BOOP == <<"B", "O", "O", "P">>
ABOVE_GROUND_2M == <<"2", " ", "m", " ", "a", "b", "o", "v", "e", " ", "g", "r", "o", "u", "n", "d">>
SURFACE == <<"s", "u", "r", "f", "a", "c", "e">>
MEAN_SEA_LEVEL == <<"m", "e", "a", "n", " ", "s", "e", "a", " ", "l", "e", "v", "e", "l">>
RUNTAG == <<"d", "=", "2", "0", "2", "2", "1", "1", "1", "2", "0", "0">>
FCST == <<"1", " ", "h", "o", "u", "r", " ", "f", "c", "s", "t">>
ENS == <<"E", "N", "S", "=", "l", "o", "w">>
GRIB == <<"G", "R", "I", "B">>

(***************************************************************************)
(* The parameter registry.                                                 *)
(***************************************************************************)
GFSParameters == <<
    [short_name |-> TEMPERATURE_2M, nc_dataset_key |-> "tmp2m",
     grib_index_key |-> TMP, grib_dataset_key |-> "t2m", model_unit |-> "k"],
    [short_name |-> RELATIVE_HUMIDITY_2M, nc_dataset_key |-> "rh2m",
     grib_index_key |-> RH, grib_dataset_key |-> "r2", model_unit |-> "%"],
    [short_name |-> GUST_SURFACE, nc_dataset_key |-> "gustsfc",
     grib_index_key |-> GUST, grib_dataset_key |-> "gust", model_unit |-> "m/s"] >>

\* Optional[ParameterMetadata]: the first descriptor with that short name
from_string(parameter_name) ==
    LET hits == {i \in 1..Len(GFSParameters) :
                    parameter_name = GFSParameters[i].short_name}
    IN  IF hits = {} THEN None
        ELSE Some(GFSParameters[CHOOSE i \in hits : \A j \in hits : i <= j])

\* Optional[str]
get_grib_index_key(p) ==
    IF from_string(p) # None THEN Some(from_string(p)[1].grib_index_key)
    ELSE None

\* Optional[str]
get_grib_dataset_key(p) ==
    IF from_string(p) # None THEN Some(from_string(p)[1].grib_dataset_key)
    ELSE None

(***************************************************************************)
(* Remote locator.                                                         *)
(***************************************************************************)
BASE_URL == "https://noaa-gfs-bdp-pds.s3.amazonaws.com"

\* str(n) of a non-negative int
RECURSIVE DecStr(_)
DecStr(n) ==
    IF n < 10 THEN DigitChars[n + 1]
    ELSE DecStr(n \div 10) \o DigitChars[(n % 10) + 1]

RECURSIVE ZeroFill(_, _)
ZeroFill(s, width) == IF Len(s) >= width THEN s ELSE ZeroFill("0" \o s, width)

\* format(n, "0{width}d")
FormatD(n, width) ==
    IF n < 0 THEN "-" \o ZeroFill(DecStr(-n), width - 1)
    ELSE ZeroFill(DecStr(n), width)

\* run.strftime("%Y%m%d")
strftime_Ymd(r) == FormatD(r.year, 4) \o FormatD(r.month, 2) \o FormatD(r.day, 2)

\* "/gfs.{run_date}/{run_hour:02d}/atmos/gfs.t{run_hour:02d}z.pgrb2.0p25.f{forecast:03d}"
URL_PATTERN(run_date, run_hour, fc) ==
    "/gfs." \o run_date \o "/" \o FormatD(run_hour, 2) \o "/atmos/gfs.t"
        \o FormatD(run_hour, 2) \o "z.pgrb2.0p25.f" \o FormatD(fc, 3)

get_grib_url(r, fc) == BASE_URL \o URL_PATTERN(strftime_Ymd(r), r.hour, fc)

get_grib_idx_url(r, fc) == get_grib_url(r, fc) \o ".idx"

\* str(v) of an Optional[int], as an f-string renders it
PyStr(v) ==
    IF v = None THEN "None"
    ELSE IF v[1] < 0 THEN "-" \o DecStr(-v[1]) ELSE DecStr(v[1])

\* f"bytes={bytes_start}-{bytes_stop}"
RangeHeader(bytes_start, bytes_stop) ==
    "bytes=" \o PyStr(bytes_start) \o "-" \o PyStr(bytes_stop)

(***************************************************************************)
(* The remote catalog, as the store writes it: one line per record,        *)
(* `seq:start:runtag:parameter:level:suffix:`, joined by newlines.         *)
(***************************************************************************)
RECURSIVE JoinFrom(_, _, _, _)
JoinFrom(parts, sep, i, acc) ==
    IF i > Len(parts) THEN acc
    ELSE JoinFrom(parts, sep, i + 1,
                  IF i = 1 THEN parts[i] ELSE acc \o <<sep>> \o parts[i])

Join(parts, sep) == JoinFrom(parts, sep, 1, <<>>)

\* decimal text of a non-negative offset or sequence number
RECURSIVE DecChars(_)
DecChars(n) ==
    IF n < 10 THEN <<DigitChars[n + 1]>>
    ELSE Append(DecChars(n \div 10), DigitChars[(n % 10) + 1])

Entry(k, s, p, l) == [kind |-> k, start |-> s, parameter |-> p, level |-> l]

EmptyLine == Entry("empty", 0, <<>>, <<>>)

\* the text of the i-th line of a catalog
LineText(i, d) ==
    LET head == <<DecChars(i), DecChars(d.start), RUNTAG, d.parameter, d.level>>
    IN  CASE d.kind = "empty" -> <<>>
          [] d.kind = "error" -> <<"<", "E", "r", "r", "o", "r", "/", ">">>
          [] d.kind = "entry" -> Join(head \o <<FCST, <<>> >>, COLON)
          [] d.kind = "bare" -> Join(head \o <<FCST>>, COLON)
          [] d.kind = "extra" -> Join(head \o <<FCST, ENS, <<>> >>, COLON)
          [] d.kind = "short" -> Join(head \o << <<>> >>, COLON)
          [] d.kind = "badstart" ->
                Join(<<DecChars(i), <<"x">> \o DecChars(d.start), RUNTAG,
                       d.parameter, d.level, FCST, <<>> >>, COLON)

CatalogText(ds) == Join([i \in 1..Len(ds) |-> LineText(i, ds[i])], NL)

\* lines that split into six fields with an integer start
WellFormed(d) == d.kind \in {"entry", "bare"}

Starts == {0, 7, 12}
Pairs == {<<TMP, ABOVE_GROUND_2M>>, <<TMP, SURFACE>>, <<RH, ABOVE_GROUND_2M>>}

LineSet ==
    {Entry("entry", s, pl[1], pl[2]) : s \in Starts, pl \in Pairs}
        \cup {EmptyLine,
              Entry("bare", 12, RH, ABOVE_GROUND_2M),
              Entry("extra", 7, TMP, SURFACE),
              Entry("short", 7, TMP, SURFACE),
              Entry("badstart", 7, TMP, SURFACE)}

Pending == [exc |-> "pending", value |-> <<>>]

\* get_start_stop_byte_nums has not returned
NoSpan == <<"pending">>

(***************************************************************************)
(* get_start_stop_byte_nums after the catalog is parsed (lines 125-142):   *)
(* the returned pair and the warning logged, if any.                       *)
(***************************************************************************)
Warning(m, a) == <<[msg |-> m, arg |-> a]>>

\* a copy-paste slip: the level branch logs the parameter warning
resolve_span_one_warning(table, param, lvl) ==
    LET grib_index_key == get_grib_index_key(param)
    IN  IF grib_index_key # None
        THEN IF grib_index_key[1] \in DOMAIN table
                  /\ lvl \in DOMAIN table[grib_index_key[1]]
             THEN [ret |-> <<Some(table[grib_index_key[1]][lvl].start),
                             table[grib_index_key[1]][lvl].stop>>,
                   warn |-> <<>>]
             ELSE [ret |-> <<None, None>>,
                   warn |-> Warning("Param: %s is not in grib index.",
                                    grib_index_key[1])]
        ELSE [ret |-> <<None, None>>,
              warn |-> Warning("Unable to find grib index key for param: %s",
                               param)]

resolve_span(table, param, lvl) ==
    LET grib_index_key == get_grib_index_key(param)
    IN  IF grib_index_key # None
        THEN IF grib_index_key[1] \in DOMAIN table
             THEN IF lvl \in DOMAIN table[grib_index_key[1]]
                  THEN [ret |-> <<Some(table[grib_index_key[1]][lvl].start),
                                  table[grib_index_key[1]][lvl].stop>>,
                        warn |-> <<>>]
                  ELSE [ret |-> <<None, None>>,
                        warn |-> Warning("Level: %s is not in grib index.", lvl)]
             ELSE [ret |-> <<None, None>>,
                   warn |-> Warning("Param: %s is not in grib index.",
                                    grib_index_key[1])]
        ELSE [ret |-> <<None, None>>,
              warn |-> Warning("Unable to find grib index key for param: %s",
                               param)]

\* a fetcher that asks for the file whatever the lookup returned
always_fetch(bytes_start) == TRUE

\* if bytes_start is not None
should_fetch(bytes_start) == bytes_start # None

\* a check that accepts any prefix of the signature
is_signature_prefix(body) ==
    Len(body) <= 4 /\ SubSeq(GRIB, 1, Len(body)) = body

\* grib_message[:4] == b"GRIB"
has_signature(body) ==
    SubSeq(body, 1, IF Len(body) < 4 THEN Len(body) ELSE 4) = GRIB

(***************************************************************************)
(* Inputs of the runs.                                                     *)
(***************************************************************************)
Run(y, m, d, h) == [year |-> y, month |-> m, day |-> d, hour |-> h]

Runs == {Run(y, m, d, h) : y \in {2022, 2023}, m \in {1, 11}, d \in {5, 12},
                           h \in {0, 6, 12, 18}}
Forecasts == {0, 1, 12, 120, 384}

FetchRuns == {Run(2022, 11, 12, 0)}
FetchForecasts == {1, 12}
Parameters == {TEMPERATURE_2M, RELATIVE_HUMIDITY_2M, TMP, PRMSL, BOOP}
Levels == {ABOVE_GROUND_2M, SURFACE}

FetchLineSet ==
    {Entry("entry", 0, PRMSL, MEAN_SEA_LEVEL),
     Entry("entry", 7, TMP, ABOVE_GROUND_2M),
     Entry("entry", 12, TMP, SURFACE),
     Entry("entry", 12, RH, ABOVE_GROUND_2M),
     Entry("short", 7, TMP, SURFACE),
     EmptyLine}

\* the body of an error response: empty, or an error document
ErrorBodies == {<<>>, <<Entry("error", 0, <<>>, <<>>)>>}

CatalogResponses ==
    {[status |-> 200, lines |-> ls] : ls \in SeqsUpTo(FetchLineSet, MaxFetchLines)}
        \cup {[status |-> st, lines |-> ls] : st \in {404, 503}, ls \in ErrorBodies}

FileResponses ==
    {[status |-> 206, body |-> b] :
        b \in {GRIB, GRIB \o <<"2">>, <<"G", "R", "I">>, <<>>,
               <<"X">> \o GRIB}}
        \cup {[status |-> 200, body |-> GRIB \o <<"2">>],
              [status |-> 404, body |-> <<"<", "E", "r", "r", "o", "r", ">">>]}

NoCall ==
    /\ catalog_status = 0
    /\ span = NoSpan
    /\ log = <<>>
    /\ requests = <<>>
    /\ file_status = 0
    /\ file_body = <<>>
    /\ grib_message = None
    /\ decoded = <<>>
    /\ value = None
    /\ exc = "none"
    /\ parsed = Pending

(***************************************************************************)
(* Spec: one invocation of grib.get_parameter_value, called directly or   *)
(* by query_grib_parameters for one valid time and parameter.              *)
(***************************************************************************)
\* forecast = (valid_time - run).seconds // 3600, valid_time - run in hours
forecast_of(hours) == ((hours * 3600) % 86400) \div 3600

\* one (valid_time, parameter) item of a /queryGribParameters request
ApiRequests ==
    {[parameter |-> p, hours |-> h] :
        p \in {TEMPERATURE_2M, RELATIVE_HUMIDITY_2M, GUST_SURFACE, TMP, BOOP},
        h \in {1, 25}}

\* list(GFSParameters.parameter_names())
parameter_names == {GFSParameters[i].short_name : i \in 1..Len(GFSParameters)}

\* a direct call of grib.get_parameter_value, or a request to the API
Init ==
    /\ \/ /\ pc = "start"
          /\ api_request = None
          /\ forecast \in FetchForecasts
          /\ parameter \in Parameters
          /\ level \in Levels
       \/ /\ pc = "api"
          /\ api_request \in {Some(q) : q \in ApiRequests}
          /\ forecast = 0
          /\ parameter = <<>>
          /\ level = <<>>
    /\ run \in FetchRuns
    /\ src_lines = <<>>
    /\ index = <<>>
    /\ url = ""
    /\ idx_url = ""
    /\ NoCall

\* query_grib_parameters lines 113-135 for one valid_time and parameter:
\* the name is validated, then grib.get_parameter_value is called with
\* parameter=grib_param.grib_index_key and level="2 m above ground"
QueryGribParameters ==
    /\ pc = "api"
    /\ IF api_request[1].parameter \notin parameter_names
       THEN /\ exc' = "HTTPException"
            /\ pc' = "done"
            /\ UNCHANGED <<forecast, parameter, level>>
       ELSE /\ forecast' = forecast_of(api_request[1].hours)
            /\ parameter' = from_string(api_request[1].parameter)[1].grib_index_key
            /\ level' = ABOVE_GROUND_2M
            /\ pc' = "start"
            /\ exc' = exc
    /\ UNCHANGED <<run, src_lines, index, catalog_status, parsed, span, log,
                   requests, file_status, file_body, grib_message, decoded,
                   value, url, idx_url, api_request>>

\* get_grib_message line 159, then get_grib_index up to its session.get
SendIndexGet ==
    /\ pc = "start"
    /\ url' = get_grib_url(run, forecast)
    /\ idx_url' = get_grib_idx_url(run, forecast)
    /\ requests' = Append(requests, [url |-> idx_url', range |-> None])
    /\ pc' = "await_index"
    /\ UNCHANGED <<run, forecast, parameter, level, src_lines, index,
                   catalog_status, parsed, span, log, file_status, file_body,
                   grib_message, decoded, value, exc>>
    /\ UNCHANGED api_request

\* session.get raises: the exception leaves every caller
IndexTransportError ==
    /\ pc = "await_index"
    /\ exc' = "ClientError"
    /\ pc' = "done"
    /\ UNCHANGED <<run, forecast, parameter, level, src_lines, index,
                   catalog_status, parsed, span, log, requests, file_status,
                   file_body, grib_message, decoded, value, url, idx_url>>
    /\ UNCHANGED api_request

\* resp_text = await response.text(), whatever the status
IndexResponse ==
    /\ pc = "await_index"
    /\ \E r \in CatalogResponses :
          /\ catalog_status' = r.status
          /\ src_lines' = r.lines
          /\ index' = CatalogText(r.lines)
    /\ pc' = "have_index"
    /\ UNCHANGED <<run, forecast, parameter, level, parsed, span, log,
                   requests, file_status, file_body, grib_message, decoded,
                   value, exc, url, idx_url>>
    /\ UNCHANGED api_request

\* parsed_index = parse_grib_index(index)
ParseIndex ==
    /\ pc = "have_index"
    /\ parsed' = parse_grib_index(index)
    /\ IF parsed'.exc = "none"
       THEN pc' = "resolve" /\ exc' = exc
       ELSE pc' = "done" /\ exc' = parsed'.exc
    /\ UNCHANGED <<run, forecast, parameter, level, src_lines, index,
                   catalog_status, span, log, requests, file_status,
                   file_body, grib_message, decoded, value, url, idx_url>>
    /\ UNCHANGED api_request

\* get_start_stop_byte_nums lines 125-142
Resolve ==
    /\ pc = "resolve"
    /\ span' = resolve_span(parsed.value, parameter, level).ret
    /\ log' = log \o resolve_span(parsed.value, parameter, level).warn
    /\ pc' = "have_span"
    /\ UNCHANGED <<run, forecast, parameter, level, src_lines, index,
                   catalog_status, parsed, requests, file_status, file_body,
                   grib_message, decoded, value, exc, url, idx_url>>
    /\ UNCHANGED api_request

\* get_grib_message lines 163-166
SendFileGet ==
    /\ pc = "have_span"
    /\ should_fetch(span[1])
    /\ requests' = Append(requests,
                          [url |-> url,
                           range |-> Some(RangeHeader(span[1], span[2]))])
    /\ pc' = "await_file"
    /\ UNCHANGED <<run, forecast, parameter, level, src_lines, index,
                   catalog_status, parsed, span, log, file_status, file_body,
                   grib_message, decoded, value, exc, url, idx_url>>
    /\ UNCHANGED api_request

\* get_grib_message falls off its end and returns None
SkipFileGet ==
    /\ pc = "have_span"
    /\ ~should_fetch(span[1])
    /\ grib_message' = None
    /\ pc' = "have_message"
    /\ UNCHANGED <<run, forecast, parameter, level, src_lines, index,
                   catalog_status, parsed, span, log, requests, file_status,
                   file_body, decoded, value, exc, url, idx_url>>
    /\ UNCHANGED api_request

FileTransportError ==
    /\ pc = "await_file"
    /\ exc' = "ClientError"
    /\ pc' = "done"
    /\ UNCHANGED <<run, forecast, parameter, level, src_lines, index,
                   catalog_status, parsed, span, log, requests, file_status,
                   file_body, grib_message, decoded, value, url, idx_url>>
    /\ UNCHANGED api_request

\* get_grib_message lines 167-169
FileResponse ==
    /\ pc = "await_file"
    /\ \E r \in FileResponses :
          /\ file_status' = r.status
          /\ file_body' = r.body
    /\ IF has_signature(file_body')
       THEN grib_message' = Some(file_body') /\ pc' = "have_message" /\ exc' = exc
       ELSE grib_message' = grib_message /\ pc' = "done" /\ exc' = "AssertionError"
    /\ UNCHANGED <<run, forecast, parameter, level, src_lines, index,
                   catalog_status, parsed, span, log, requests, decoded,
                   value, url, idx_url>>
    /\ UNCHANGED api_request

\* get_parameter_value lines 208-225
Decode ==
    /\ pc = "have_message"
    /\ IF grib_message # None
       THEN /\ decoded' = Append(decoded, grib_message[1])
            /\ value' = get_grib_dataset_key(parameter)
       ELSE /\ decoded' = decoded
            /\ value' = None
    /\ pc' = "done"
    /\ UNCHANGED <<run, forecast, parameter, level, src_lines, index,
                   catalog_status, parsed, span, log, requests, file_status,
                   file_body, grib_message, exc, url, idx_url>>
    /\ UNCHANGED api_request

Next ==
    \/ QueryGribParameters
    \/ SendIndexGet
    \/ IndexTransportError
    \/ IndexResponse
    \/ ParseIndex
    \/ Resolve
    \/ SendFileGet
    \/ SkipFileGet
    \/ FileTransportError
    \/ FileResponse
    \/ Decode

Spec == Init /\ [][Next]_vars

(***************************************************************************)
(* SpecParse: parse_grib_index applied to catalogs of up to MaxLines lines *)
(***************************************************************************)
InitParse ==
    /\ pc = "have_index"
    /\ run \in FetchRuns
    /\ forecast = 1
    /\ parameter = TEMPERATURE_2M
    /\ level = ABOVE_GROUND_2M
    /\ src_lines \in SeqsUpTo(LineSet, MaxLines)
    /\ index = CatalogText(src_lines)
    /\ url = ""
    /\ idx_url = ""
    /\ api_request = None
    /\ NoCall

NextParse == ParseIndex

SpecParse == InitParse /\ [][NextParse]_vars

(***************************************************************************)
(* SpecUrl: the remote locator applied to runs and forecast hours.         *)
(***************************************************************************)
InitUrl ==
    /\ pc = "url"
    /\ run \in Runs
    /\ forecast \in Forecasts
    /\ parameter = <<>>
    /\ level = <<>>
    /\ src_lines = <<>>
    /\ index = <<>>
    /\ url = ""
    /\ idx_url = ""
    /\ api_request = None
    /\ NoCall

FormatUrls ==
    /\ pc = "url"
    /\ url' = get_grib_url(run, forecast)
    /\ idx_url' = get_grib_idx_url(run, forecast)
    /\ pc' = "url_done"
    /\ UNCHANGED <<run, forecast, parameter, level, src_lines, index,
                   catalog_status, parsed, span, log, requests, file_status,
                   file_body, grib_message, decoded, value, exc>>
    /\ UNCHANGED api_request

NextUrl == FormatUrls

SpecUrl == InitUrl /\ [][NextUrl]_vars

(***************************************************************************)
(* Catalog parser properties (SpecParse).                                  *)
(***************************************************************************)
NonEmptyAt(ds) == {i \in 1..Len(ds) : ds[i].kind # "empty"}

LaterAt(ds, i) == {j \in NonEmptyAt(ds) : j > i}

\* the next later non-empty line, when LaterAt(ds, i) is not empty
NextAt(ds, i) == CHOOSE j \in LaterAt(ds, i) : \A k \in LaterAt(ds, i) : j <= k

AllWellFormed(ds) == \A i \in NonEmptyAt(ds) : WellFormed(ds[i])

DistinctPairs(ds) ==
    \A i, j \in NonEmptyAt(ds) :
        (ds[i].parameter = ds[j].parameter /\ ds[i].level = ds[j].level) => i = j

HasEntry(table, p, l) == p \in DOMAIN table /\ l \in DOMAIN table[p]

\* the (parameter, level) pairs of a table
TableKeys(table) == UNION {{<<p, l>> : l \in DOMAIN table[p]} : p \in DOMAIN table}

ExpectedSpan(ds, i) ==
    [start |-> ds[i].start,
     stop |-> IF LaterAt(ds, i) = {} THEN None
              ELSE Some(ds[NextAt(ds, i)].start - 1)]

\* C1: for a catalog of well-formed lines with distinct (parameter, level)
\* pairs, parse_grib_index returns a table that holds, for each non-empty
\* line, that line's start and a stop one byte before the start of the next
\* later non-empty line, None for the last non-empty line; empty lines
\* contribute nothing and the table has no other entries.
C1_ParseRecordsSpans ==
    (parsed # Pending /\ AllWellFormed(src_lines) /\ DistinctPairs(src_lines)) =>
        /\ parsed.exc = "none"
        /\ \A i \in NonEmptyAt(src_lines) :
              /\ HasEntry(parsed.value, src_lines[i].parameter, src_lines[i].level)
              /\ parsed.value[src_lines[i].parameter][src_lines[i].level]
                    = ExpectedSpan(src_lines, i)
        /\ TableKeys(parsed.value)
              = {<<src_lines[i].parameter, src_lines[i].level>> : i \in NonEmptyAt(src_lines)}

\* a parsed three-line catalog: two records around an empty line, and
\* another with a trailing empty line
C1_Witness ==
    /\ parsed # Pending
    /\ Len(src_lines) = 3
    /\ AllWellFormed(src_lines) /\ DistinctPairs(src_lines)
    /\ NonEmptyAt(src_lines) = {1, 3}
    /\ parsed.exc = "none"
    /\ parsed.value[src_lines[1].parameter][src_lines[1].level].stop
          = Some(src_lines[3].start - 1)
    /\ parsed.value[src_lines[3].parameter][src_lines[3].level].stop = None

NonDecreasing(ds) ==
    \A i, j \in NonEmptyAt(ds) : i < j => ds[i].start <= ds[j].start

StrictlyIncreasing(ds) ==
    \A i, j \in NonEmptyAt(ds) : i < j => ds[i].start < ds[j].start

ValidCatalog(ds) == AllWellFormed(ds) /\ NonDecreasing(ds)

BoundedEntries(table) == {pl \in TableKeys(table) : table[pl[1]][pl[2]].stop # None}

\* C5 as stated: in the table of a valid catalog (well-formed lines, start
\* offsets non-decreasing, equal consecutive offsets allowed) every entry
\* with a bounded stop has start <= stop.
C5_StartLeStop ==
    (parsed # Pending /\ ValidCatalog(src_lines)) =>
        \A pl \in BoundedEntries(parsed.value) :
            parsed.value[pl[1]][pl[2]].start <= parsed.value[pl[1]][pl[2]].stop[1]

\* C5 amended: in the table of a valid catalog every entry with a bounded
\* stop has start <= stop + 1, and start <= stop when the start offsets are
\* strictly increasing.
C5_StartLeStopStrict ==
    (parsed # Pending /\ ValidCatalog(src_lines)) =>
        \A pl \in BoundedEntries(parsed.value) :
            /\ parsed.value[pl[1]][pl[2]].start <= parsed.value[pl[1]][pl[2]].stop[1] + 1
            /\ StrictlyIncreasing(src_lines) =>
                  parsed.value[pl[1]][pl[2]].start <= parsed.value[pl[1]][pl[2]].stop[1]

\* a parsed valid catalog with a bounded entry, once with strictly
\* increasing offsets
C5_Witness ==
    /\ parsed # Pending
    /\ ValidCatalog(src_lines)
    /\ StrictlyIncreasing(src_lines)
    /\ Cardinality(NonEmptyAt(src_lines)) = 3
    /\ parsed.exc = "none"
    /\ BoundedEntries(parsed.value) # {}

PairAt(ds, i) == <<ds[i].parameter, ds[i].level>>

\* the last non-empty line, when there is one
LastAt(ds) == CHOOSE i \in NonEmptyAt(ds) : \A j \in NonEmptyAt(ds) : j <= i

UnboundedEntries(table) == TableKeys(table) \ BoundedEntries(table)

\* C11 as stated: in the table of a well-formed non-empty catalog, repeated
\* (parameter, level) pairs included, at most one entry is unbounded, an
\* unbounded entry starts at the last line's start, and the pair of the
\* last line maps to an unbounded entry.
C11_UnboundedIffLast ==
    (parsed # Pending /\ AllWellFormed(src_lines) /\ NonEmptyAt(src_lines) # {}) =>
        /\ Cardinality(UnboundedEntries(parsed.value)) <= 1
        /\ \A pl \in UnboundedEntries(parsed.value) :
              parsed.value[pl[1]][pl[2]].start = src_lines[LastAt(src_lines)].start
        /\ PairAt(src_lines, LastAt(src_lines)) \in UnboundedEntries(parsed.value)

\* C11 amended: at most one entry is unbounded; an unbounded entry is the
\* entry of the last line's pair and starts at the last line's start; the
\* pair of the last line maps to an unbounded entry exactly when no earlier
\* line repeats that pair.
C11_UnboundedOnlyLast ==
    (parsed # Pending /\ AllWellFormed(src_lines) /\ NonEmptyAt(src_lines) # {}) =>
        /\ parsed.exc = "none"
        /\ Cardinality(UnboundedEntries(parsed.value)) <= 1
        /\ \A pl \in UnboundedEntries(parsed.value) :
              /\ pl = PairAt(src_lines, LastAt(src_lines))
              /\ parsed.value[pl[1]][pl[2]].start = src_lines[LastAt(src_lines)].start
        /\ PairAt(src_lines, LastAt(src_lines)) \in UnboundedEntries(parsed.value)
              <=> \A i \in NonEmptyAt(src_lines) :
                     PairAt(src_lines, i) = PairAt(src_lines, LastAt(src_lines))
                         => i = LastAt(src_lines)

\* a parsed catalog of three records whose last pair is not repeated, the
\* first record at a later offset than the second
C11_Witness ==
    /\ parsed # Pending
    /\ AllWellFormed(src_lines)
    /\ NonEmptyAt(src_lines) = {1, 2, 3}
    /\ src_lines[2].start = 0
    /\ PairAt(src_lines, 1) = PairAt(src_lines, 2)
    /\ UnboundedEntries(parsed.value) = {PairAt(src_lines, 3)}

SamePairAt(ds, i) == {j \in NonEmptyAt(ds) : PairAt(ds, j) = PairAt(ds, i)}

\* the earliest line with the pair of line i
EarliestAt(ds, i) == CHOOSE j \in SamePairAt(ds, i) : \A k \in SamePairAt(ds, i) : j <= k

\* C13 as stated: a line whose suffix holds further colons is parsed and
\* yields the start, parameter and level of the line without the extra
\* suffix text; parse_grib_index rejects a catalog only for a line with
\* fewer than six fields or a non-integer start.
C13_SuffixColonsAccepted ==
    parsed # Pending =>
        /\ parsed.exc = "ValueError"
              <=> \E i \in NonEmptyAt(src_lines) : src_lines[i].kind \in {"short", "badstart"}
        /\ parsed.exc = "none" =>
              \A i \in NonEmptyAt(src_lines) :
                  /\ HasEntry(parsed.value, src_lines[i].parameter, src_lines[i].level)
                  /\ parsed.value[src_lines[i].parameter][src_lines[i].level].start
                        = src_lines[EarliestAt(src_lines, i)].start

\* C14: when a well-formed catalog repeats a (parameter, level) pair, the
\* table holds one entry for that pair, the entry of the earliest line with
\* the pair: its start is that line's start and its stop is one less than
\* the start of the next non-empty line after that earliest line.
C14_EarliestDuplicateWins ==
    (parsed # Pending /\ AllWellFormed(src_lines)) =>
        /\ parsed.exc = "none"
        /\ TableKeys(parsed.value) = {PairAt(src_lines, i) : i \in NonEmptyAt(src_lines)}
        /\ \A i \in NonEmptyAt(src_lines) :
              Cardinality(SamePairAt(src_lines, i)) > 1 =>
                  /\ LaterAt(src_lines, EarliestAt(src_lines, i)) # {}
                  /\ parsed.value[src_lines[i].parameter][src_lines[i].level]
                        = [start |-> src_lines[EarliestAt(src_lines, i)].start,
                           stop |-> Some(src_lines[NextAt(src_lines,
                                            EarliestAt(src_lines, i))].start - 1)]

\* a parsed catalog whose first and third records share a pair at different
\* offsets, with another record between them
C14_Witness ==
    /\ parsed # Pending
    /\ AllWellFormed(src_lines)
    /\ NonEmptyAt(src_lines) = {1, 2, 3}
    /\ PairAt(src_lines, 1) = PairAt(src_lines, 3)
    /\ PairAt(src_lines, 1) # PairAt(src_lines, 2)
    /\ src_lines[1].start = 0 /\ src_lines[2].start = 7 /\ src_lines[3].start = 12
    /\ parsed.value[src_lines[3].parameter][src_lines[3].level]
          = [start |-> 0, stop |-> Some(6)]

(***************************************************************************)
(* Remote locator properties (SpecUrl).                                    *)
(***************************************************************************)
\* C4: get_grib_url returns base + /gfs.{YYYYMMDD}/{HH}/atmos/
\* gfs.t{HH}z.pgrb2b.0p25.f{FFF}, HH in two digits and FFF in three, the
\* literal of the test for run 2022-11-12T00 and forecast 1, and
\* get_grib_idx_url returns that string with .idx appended.
C4_UrlPattern ==
    pc = "url_done" =>
        /\ url = BASE_URL \o "/gfs." \o FormatD(run.year, 4) \o FormatD(run.month, 2)
                    \o FormatD(run.day, 2) \o "/" \o FormatD(run.hour, 2)
                    \o "/atmos/gfs.t" \o FormatD(run.hour, 2) \o "z.pgrb2b.0p25.f"
                    \o FormatD(forecast, 3)
        /\ idx_url = url \o ".idx"
        /\ (run = Run(2022, 11, 12, 0) /\ forecast = 1) =>
              url = "https://noaa-gfs-bdp-pds.s3.amazonaws.com/gfs.20221112/00/atmos/gfs.t00z.pgrb2b.0p25.f001"

(***************************************************************************)
(* Fetcher properties (Spec).                                              *)
(***************************************************************************)
Resolved == span # NoSpan

IndexKey == get_grib_index_key(parameter)

UnknownParameter == IndexKey = None

ParameterMiss == IndexKey # None /\ IndexKey[1] \notin DOMAIN parsed.value

LevelMiss ==
    /\ IndexKey # None
    /\ IndexKey[1] \in DOMAIN parsed.value
    /\ level \notin DOMAIN parsed.value[IndexKey[1]]

FileGets == {i \in 1..Len(requests) : requests[i].url = get_grib_url(run, forecast)}

IndexGets == {i \in 1..Len(requests) : requests[i].url = get_grib_idx_url(run, forecast)}

\* C2: the Range header of the file GET is bytes={start}-{stop} for a
\* bounded stop and bytes={start}- for an unbounded one.
C2_RangeHeader ==
    pc = "await_file" =>
        requests[Len(requests)].range
            = Some("bytes=" \o PyStr(span[1]) \o "-"
                       \o (IF span[2] = None THEN "" ELSE PyStr(span[2])))

\* C3: when the parameter passed is the catalog abbreviation and the catalog
\* has an entry for (parameter, level), get_start_stop_byte_nums returns
\* that entry's (start, stop).
C3_ResolvesCatalogAbbreviation ==
    (Resolved /\ HasEntry(parsed.value, parameter, level)) =>
        span = <<Some(parsed.value[parameter][level].start),
                 parsed.value[parameter][level].stop>>

C7_AbsentParameterIsNone ==
    (Resolved /\ parameter \notin DOMAIN parsed.value
              /\ (UnknownParameter \/ ParameterMiss)) =>
        span = None

\* C8: once a lookup has failed (unknown parameter, parameter not in the
\* catalog, level not in the catalog) the invocation never issues a GET
\* against the file URL and returns no bytes.
C8_NoFileGetAfterMiss ==
    (Resolved /\ (UnknownParameter \/ ParameterMiss \/ LevelMiss)) =>
        /\ FileGets = {}
        /\ pc # "await_file"
        /\ file_status = 0
        /\ grib_message = None
        /\ decoded = <<>>
        /\ value = None

\* a finished invocation whose level lookup failed
C8_Witness ==
    /\ pc = "done"
    /\ Resolved
    /\ LevelMiss
    /\ Len(requests) = 1
    /\ exc = "none"

BeginsWithGRIB(body) == Len(body) >= 4 /\ \A i \in 1..4 : body[i] = GRIB[i]

\* C9: when the body of the ranged file GET does not begin with GRIB, the
\* invocation ends in the assertion error, get_grib_message returns no
\* bytes and nothing is handed to the record decoder.
C9_SignatureGate ==
    (file_status # 0 /\ ~BeginsWithGRIB(file_body)) =>
        /\ pc = "done"
        /\ exc = "AssertionError"
        /\ grib_message = None
        /\ decoded = <<>>
        /\ value = None

\* a file response shorter than the signature
C9_Witness ==
    /\ file_status # 0
    /\ file_body # <<>>
    /\ Len(file_body) < 4
    /\ exc = "AssertionError"

CatalogGetFailed ==
    \/ catalog_status >= 400
    \/ pc = "done" /\ catalog_status = 0 /\ exc = "ClientError"

\* C10: when the catalog GET fails, by a transport error or an HTTP error
\* status, the body is never parsed, the catalog GET is not repeated, no
\* file GET is issued and the invocation ends in the fetch failure.
C10_CatalogFailureStops ==
    CatalogGetFailed =>
        /\ parsed = Pending
        /\ Cardinality(IndexGets) = 1
        /\ FileGets = {}
        /\ pc = "done" => exc = "ClientError"

\* C12: for a registered parameter requested through query_grib_parameters,
\* the key looked up in the parsed catalog is the descriptor's catalog
\* abbreviation: when the catalog has table[grib_index_key][level], that
\* record's span is returned.
C12_ApiLooksUpAbbreviation ==
    (/\ api_request # None
     /\ Resolved
     /\ from_string(api_request[1].parameter) # None
     /\ HasEntry(parsed.value,
                 from_string(api_request[1].parameter)[1].grib_index_key, level)) =>
        span = <<Some(parsed.value[from_string(api_request[1].parameter)[1].grib_index_key][level].start),
                 parsed.value[from_string(api_request[1].parameter)[1].grib_index_key][level].stop>>

====
